---- MODULE Spec2Model ----
(***************************************************************************)
(* A model of the defi_greeks library: closed-form prices and Greeks of    *)
(* European options (Black-Scholes), concentrated-liquidity positions and  *)
(* squeeth.  Every public function is a pure function of floating-point    *)
(* arguments.                                                              *)
(*                                                                         *)
(* Floating-point values are modelled as decimal floats: a finite value    *)
(* is m * 10^e with a signed mantissa of nine decimal digits, and there    *)
(* are the IEEE special values NaN, +inf and -inf.  Every operation rounds *)
(* its result to nine digits (half away from zero), so rounding is present *)
(* in the model as it is in the code, with a coarser unit.  The f32        *)
(* operations of the concentrated-liquidity module round to seven digits.  *)
(***************************************************************************)
EXTENDS Integers, Sequences, FiniteSets, TLC

VARIABLES args, res, thr, mem

vars == <<args, res, thr, mem>>

(***************************************************************************)
(* Decimal floating point                                                  *)
(***************************************************************************)
Abs(n) == IF n < 0 THEN -n ELSE n

Sgn(n) == IF n < 0 THEN -1 ELSE IF n > 0 THEN 1 ELSE 0

Fin(m, e) == [k |-> "fin", m |-> m, e |-> e]

Zero == Fin(0, 0)

NaN == [k |-> "nan", m |-> 0, e |-> 0]

PInf == [k |-> "inf", m |-> 1, e |-> 0]

NInf == [k |-> "inf", m |-> -1, e |-> 0]

Inf(s) == IF s < 0 THEN NInf ELSE PInf

IsNaN(a) == a.k = "nan"

IsInf(a) == a.k = "inf"

IsFin(a) == a.k = "fin"

\* f64: the largest finite value is about 1.8 * 10^308 (its decimal exponent)
MaxExp10 == 308

\* Norm(s, n, e): the value s * n * 10^e, for a sign s and a magnitude
\* 0 <= n < 2^31, as a nine-digit float
RECURSIVE Norm(_, _, _)
Norm(s, n, e) ==
    IF n = 0 THEN Zero
    ELSE IF n >= 10^9
         THEN Norm(s, (n \div 10) + (IF n % 10 >= 5 THEN 1 ELSE 0), e + 1)
    ELSE IF n < 10^8 THEN Norm(s, n * 10, e - 1)
    ELSE IF e + 8 > MaxExp10 THEN Inf(s)
    ELSE IF e + 8 < -MaxExp10 THEN Zero
    ELSE Fin(s * n, e)

\* a decimal literal: n * 10^e
Dec(n, e) == Norm(Sgn(n), Abs(n), e)

FromInt(n) == Dec(n, 0)

FNeg(a) == IF IsNaN(a) THEN NaN ELSE [a EXCEPT !.m = -a.m]

FAbs(a) == IF IsNaN(a) THEN NaN ELSE [a EXCEPT !.m = Abs(a.m)]

\* n / 10^d rounded half up, for n >= 0 and 0 <= d <= 9
ShiftRight(n, d) ==
    IF d = 0 THEN n
    ELSE (n \div 10^d) + (IF (n % 10^d) * 2 >= 10^d THEN 1 ELSE 0)

RECURSIVE Digits(_)
Digits(n) == IF n < 10 THEN 1 ELSE 1 + Digits(n \div 10)

\* s * (A * 10^9 + L) * 10^e for 0 <= A and 0 <= L < 10^9, rounded once
AddWide(s, A, L, e) ==
    IF A = 0 THEN Norm(s, L, e)
    ELSE Norm(s, A * 10^(9 - Digits(A)) + ShiftRight(L, Digits(A)),
              e + Digits(A))

\* s * (A * 10^9 + t) * 10^e for a low part -10^9 < t < 2 * 10^9, which
\* carries into or borrows from A
AddParts(s, A, t, e) == AddWide(s, A + (t \div 10^9), t % 10^9, e)

\* the exact sum of two finite nonzero values d = hi.e - lo.e >= 0 apart,
\* rounded once: in units of lo's last digit hi is A * 10^9 + B
AddOrdered(hi, lo, d) ==
    IF d > 9 THEN hi
    ELSE IF d = 0 THEN Norm(Sgn(hi.m + lo.m), Abs(hi.m + lo.m), hi.e)
    ELSE AddParts(Sgn(hi.m), Abs(hi.m) \div 10^(9 - d),
                  (Abs(hi.m) % 10^(9 - d)) * 10^d + Sgn(hi.m) * lo.m, lo.e)

FAdd(a, b) ==
    IF IsNaN(a) \/ IsNaN(b) THEN NaN
    ELSE IF IsInf(a) THEN (IF IsInf(b) /\ b.m # a.m THEN NaN ELSE a)
    ELSE IF IsInf(b) THEN b
    ELSE IF a.m = 0 THEN b
    ELSE IF b.m = 0 THEN a
    ELSE AddOrdered(IF a.e >= b.e THEN a ELSE b, IF a.e >= b.e THEN b ELSE a,
                    Abs(a.e - b.e))

FSub(a, b) == FAdd(a, FNeg(b))

\* s * (h * 10^3 + l) * 10^e for 0 <= h < 10^9 and 0 <= l < 10^3, rounded
MulRound(s, h, l, e) ==
    IF h >= 10^8
    THEN Norm(s, h + (IF l >= 500 THEN 1 ELSE 0), e + 3)
    ELSE Norm(s, h * 10 + (l \div 100) + (IF l % 100 >= 50 THEN 1 ELSE 0),
              e + 2)

\* a product from its columns in base 1000: c4 * 10^12 + c3 * 10^9 +
\* t2 * 10^6 + ..., t2 holding the carries of the columns below it
MulColumns(s, c4, c3, t2, e) ==
    MulRound(s, (c4 + ((c3 + (t2 \div 10^3)) \div 10^3)) * 10^3
                    + ((c3 + (t2 \div 10^3)) % 10^3),
             t2 % 10^3, e)

\* the product of two magnitudes given by their base-1000 limbs
MulLimbs(s, x2, x1, x0, y2, y1, y0, e) ==
    MulColumns(s, x2 * y2, x2 * y1 + x1 * y2,
               x2 * y0 + x1 * y1 + x0 * y2
                  + ((x1 * y0 + x0 * y1 + ((x0 * y0) \div 10^3)) \div 10^3),
               e)

FMul(a, b) ==
    IF IsNaN(a) \/ IsNaN(b) THEN NaN
    ELSE IF IsInf(a) \/ IsInf(b)
         THEN (IF a.m = 0 \/ b.m = 0 THEN NaN ELSE Inf(Sgn(a.m) * Sgn(b.m)))
    ELSE IF a.m = 0 \/ b.m = 0 THEN Zero
    ELSE MulLimbs(Sgn(a.m) * Sgn(b.m),
                  Abs(a.m) \div 10^6, (Abs(a.m) \div 10^3) % 10^3,
                  Abs(a.m) % 10^3,
                  Abs(b.m) \div 10^6, (Abs(b.m) \div 10^3) % 10^3,
                  Abs(b.m) % 10^3,
                  a.e + b.e + 6)

\* Long division by y.  A pair <<q, v>> is a quotient and a remainder; with
\* v < 2 y, DivBit brings the remainder below y.
DivBit(q, v, y) == IF v >= y THEN <<q + 1, v - y>> ELSE <<q, v>>

\* twice the value of d
DivDouble(d, y) == DivBit(2 * d[1], 2 * d[2], y)

\* the sum of the values of d and c
DivPlus(d, c, y) == DivBit(d[1] + c[1], d[2] + c[2], y)

\* ten times the value of d, 10 = 2 * (2 * 2 + 1): one more decimal digit
DivTimes10(d, y) == DivDouble(DivPlus(DivDouble(DivDouble(d, y), y), d, y), y)

\* n more decimal digits of the quotient
RECURSIVE DivDigits(_, _, _)
DivDigits(d, y, n) ==
    IF d[1] < 0 THEN <<0, 0>>
    ELSE IF n = 0 THEN d
    ELSE DivDigits(DivTimes10(d, y), y, n - 1)

\* the quotient d[1] with remainder d[2], rounded
DivRound(s, d, y, e) == Norm(s, d[1] + (IF 2 * d[2] >= y THEN 1 ELSE 0), e)

\* x / y for magnitudes of nine digits: the first digit and n more
DivMag(s, x, y, e, n) ==
    DivRound(s, DivDigits(<<x \div y, x % y>>, y, n), y, e - n)

FDiv(a, b) ==
    IF IsNaN(a) \/ IsNaN(b) THEN NaN
    ELSE IF IsInf(a) THEN (IF IsInf(b) THEN NaN
                           ELSE Inf(a.m * (IF b.m < 0 THEN -1 ELSE 1)))
    ELSE IF IsInf(b) THEN Zero
    ELSE IF b.m = 0 THEN (IF a.m = 0 THEN NaN ELSE Inf(Sgn(a.m)))
    ELSE IF a.m = 0 THEN Zero
    ELSE DivMag(Sgn(a.m) * Sgn(b.m), Abs(a.m), Abs(b.m), a.e - b.e,
                IF Abs(a.m) >= Abs(b.m) THEN 8 ELSE 9)

\* a > b; false when either is NaN
FGt(a, b) ==
    IF IsNaN(a) \/ IsNaN(b) THEN FALSE
    ELSE IF IsInf(a) THEN a.m > 0 /\ b # PInf
    ELSE IF IsInf(b) THEN b.m < 0
    ELSE IF Sgn(a.m) # Sgn(b.m) THEN Sgn(a.m) > Sgn(b.m)
    ELSE IF a.m = 0 THEN FALSE
    ELSE IF a.e # b.e THEN (IF a.m > 0 THEN a.e > b.e ELSE a.e < b.e)
    ELSE a.m > b.m

One == FromInt(1)

Two == FromInt(2)

Half == Dec(5, -1)

\* floor(sqrt(n)) for n >= 1, by Newton's iteration downwards from g
RECURSIVE ISqrtFrom(_, _)
ISqrtFrom(n, g) ==
    IF (g + n \div g) \div 2 >= g THEN g
    ELSE ISqrtFrom(n, (g + n \div g) \div 2)

\* the integer square root of the mantissa, at half the exponent
SqrtSeed(a) ==
    IF a.e % 2 = 0
    THEN Dec(ISqrtFrom(a.m, 46340), a.e \div 2)
    ELSE Dec(ISqrtFrom(a.m \div 10, 46340), (a.e + 1) \div 2)

\* one Newton step for the square root of a from g
SqrtStep(a, g) == FMul(Half, FAdd(g, FDiv(a, g)))

\* x.sqrt(): NaN below zero; two Newton steps from the seed
FSqrt(a) ==
    IF IsNaN(a) THEN NaN
    ELSE IF a.m < 0 THEN NaN
    ELSE IF IsInf(a) \/ a.m = 0 THEN a
    ELSE SqrtStep(a, SqrtStep(a, SqrtSeed(a)))

\* the integer nearest to a finite a with |a| < 10^9
RoundToInt(a) ==
    IF a.e >= 0 THEN a.m * 10^a.e
    ELSE IF a.e < -9 THEN 0
    ELSE Sgn(a.m) * ShiftRight(Abs(a.m), -a.e)

\* ln 10 = Ln10Hi + Ln10Lo, Ln10Hi short enough that n * Ln10Hi is exact
Ln10Hi == Dec(230258, -5)

Ln10Lo == Dec(509299405, -14)

\* Horner's rule for the Taylor series of e^r: from acc, the tail of the
\* series after its term of order j, acc becomes 1 + r * acc / j
RECURSIVE ExpSeries(_, _, _)
ExpSeries(r, j, acc) ==
    IF IsNaN(acc) THEN NaN
    ELSE IF j = 0 THEN acc
    ELSE ExpSeries(r, j - 1, FAdd(One, FDiv(FMul(r, acc), FromInt(j))))

ExpTerms == 14

\* e^y for y = n ln 10 + r: 10^n * e^r
ExpReduce(y, n) ==
    FMul(Dec(1, n),
         ExpSeries(FSub(FSub(y, FMul(FromInt(n), Ln10Hi)),
                        FMul(FromInt(n), Ln10Lo)),
                   ExpTerms, One))

\* e^y: y = n ln 10 + r with |r| <= ln(10)/2
FExp(y) ==
    IF IsNaN(y) THEN NaN
    ELSE IF IsInf(y) THEN (IF y.m > 0 THEN PInf ELSE Zero)
    ELSE IF y.m = 0 THEN One
    ELSE IF y.e + 8 >= 3 THEN (IF y.m > 0 THEN PInf ELSE Zero)
    ELSE ExpReduce(y, RoundToInt(FDiv(y, FAdd(Ln10Hi, Ln10Lo))))

\* Horner's rule for atanh(z)/z = sum_k w^k / (2k+1), w = z^2: from acc, the
\* tail of the series after its term of order j, acc becomes 1/(2j+1) + w * acc
RECURSIVE AtanhSeries(_, _, _)
AtanhSeries(w, j, acc) ==
    IF IsNaN(acc) THEN NaN
    ELSE IF j < 0 THEN acc
    ELSE AtanhSeries(w, j - 1,
                     FAdd(FDiv(One, FromInt(2 * j + 1)), FMul(w, acc)))

LnTerms == 16

\* ln(f * 10^n) for f = (1 + z) / (1 - z): 2 atanh(z) + n ln 10
LnAtanh(z, n) ==
    FAdd(FMul(FromInt(n), Ln10Hi),
         FAdd(FMul(FMul(Two, z), AtanhSeries(FMul(z, z), LnTerms, Zero)),
              FMul(FromInt(n), Ln10Lo)))

LnReduce(f, n) == LnAtanh(FDiv(FSub(f, One), FAdd(f, One)), n)

\* x.ln(): x = f * 10^n with f in [0.316, 3.163), ln f = 2 atanh((f-1)/(f+1))
FLn(x) ==
    IF IsNaN(x) THEN NaN
    ELSE IF x.m < 0 THEN NaN
    ELSE IF IsInf(x) THEN PInf
    ELSE IF x.m = 0 THEN NInf
    ELSE IF x.m >= 316227766 THEN LnReduce(Fin(x.m, -9), x.e + 9)
    ELSE LnReduce(Fin(x.m, -8), x.e + 8)

\* std::f64::consts::E
E == Dec(271828183, -8)

IsInteger(y) ==
    IsFin(y) /\ (y.e >= 0 \/ (y.e >= -8 /\ Abs(y.m) % 10^(-y.e) = 0))

\* an integer y is odd
IsOdd(y) == y.e <= 0 /\ y.e >= -8 /\ (Abs(y.m) \div 10^(-y.e)) % 2 = 1

\* the power p of |b| with the sign of b^y
PowSign(b, y, p) == IF b.m < 0 /\ IsOdd(y) THEN FNeg(p) ELSE p

\* b.powf(y): pow(b, 2.0) is the rounded square, also of a negative b; a
\* negative base with a fractional exponent is NaN
FPowf(b, y) ==
    IF IsNaN(b) \/ IsNaN(y) THEN (IF y = Zero \/ b = One THEN One ELSE NaN)
    ELSE IF y = Zero \/ b = One THEN One
    ELSE IF y = Two THEN FMul(b, b)
    ELSE IF b = Zero THEN (IF y.m > 0 THEN Zero ELSE PInf)
    ELSE IF b.m < 0 /\ ~IsInteger(y) THEN NaN
    ELSE PowSign(b, y, FExp(FMul(y, FLn(FAbs(b)))))

(***************************************************************************)
(* src/stats.rs                                                            *)
(***************************************************************************)
A1 == Dec(31938153, -8)

A2 == Dec(-356563782, -9)

A3 == Dec(1781477937, -9)

A4 == Dec(-1821255978, -9)

A5 == Dec(1330274429, -9)

RSQRTPI == Dec(398942280, -9)

\* the initial value of cnd's local, from x and k
cnd_local(x, k) ==
    FMul(FMul(RSQRTPI, FPowf(E, FMul(FMul(Dec(-5, -1), x), x))),
         FMul(k, FAdd(A1, FMul(k, FAdd(A2, FMul(k, FAdd(A3,
              FMul(k, FAdd(A4, FMul(k, A5))))))))))

\* cnd_value with k computed from x, not from |x|
cnd_value_without_abs(x) ==
    cnd_local(x, FDiv(One, FAdd(One, FMul(Dec(2316419, -7), x))))

\* the value of cnd's local before the branch on the sign of x
cnd_value(x) ==
    cnd_local(x, FDiv(One, FAdd(One, FMul(Dec(2316419, -7), FAbs(x)))))

cnd_branch(x, v) == IF FGt(x, Zero) THEN FSub(One, v) ELSE v

cnd(x) == cnd_branch(x, cnd_value(x))

(***************************************************************************)
(* src/common.rs                                                           *)
(***************************************************************************)
PI == Dec(314159265, -8)

d1(s0, x, t, r, q, sigma) ==
    LET ln    == FLn(FDiv(s0, x))
        t_num == FMul(t, FAdd(FSub(r, q), FDiv(FPowf(sigma, Two), Two)))
    IN FDiv(FAdd(ln, t_num), FMul(sigma, FSqrt(t)))

\* d2 with the square root of t forgotten
d2_without_sqrt(s0, x, t, r, q, sigma) ==
    FSub(d1(s0, x, t, r, q, sigma), FMul(t, sigma))

d2(s0, x, t, r, q, sigma) ==
    FSub(d1(s0, x, t, r, q, sigma), FMul(FSqrt(t), sigma))

d2_d1(t, sigma, d_1) == FSub(d_1, FMul(FSqrt(t), sigma))

one_over_sqrt_pi == FDiv(One, FSqrt(FMul(Two, PI)))

(***************************************************************************)
(* src/price.rs                                                            *)
(***************************************************************************)
\* the statements of euro_call after d1
euro_call_args(s0, x, t, r, sigma, d_1) ==
    FSub(FMul(s0, cnd(d_1)),
         FMul(FMul(x, FPowf(E, FMul(FNeg(r), t))), cnd(d2_d1(t, sigma, d_1))))

euro_call(s0, x, t, r, q, sigma) ==
    euro_call_args(s0, x, t, r, sigma, d1(s0, x, t, r, q, sigma))

\* the statements of euro_put after d1
euro_put_args(s0, x, t, r, sigma, d_1) ==
    FAdd(FNeg(FMul(s0, cnd(FNeg(d_1)))),
         FMul(FMul(x, FPowf(E, FMul(FNeg(r), t))),
              cnd(FNeg(d2_d1(t, sigma, d_1)))))

euro_put(s0, x, t, r, q, sigma) ==
    euro_put_args(s0, x, t, r, sigma, d1(s0, x, t, r, q, sigma))

(***************************************************************************)
(* src/greeks/first.rs                                                     *)
(***************************************************************************)
delta_call(s0, x, t, r, q, sigma) ==
    FMul(FPowf(E, FNeg(FMul(q, t))), cnd(d1(s0, x, t, r, q, sigma)))

\* delta_put with the dividend discount forgotten
delta_put_undiscounted(s0, x, t, r, q, sigma) ==
    FSub(cnd(d1(s0, x, t, r, q, sigma)), One)

delta_put(s0, x, t, r, q, sigma) ==
    FMul(FPowf(E, FNeg(FMul(q, t))), FSub(cnd(d1(s0, x, t, r, q, sigma)), One))

\* lambda answering 0 for an option without a price
lambda_checked(s0, v, delta) ==
    IF v = Zero THEN Zero ELSE FDiv(FMul(delta, s0), v)

lambda(s0, v, delta) == FDiv(FMul(delta, s0), v)

lambda_call(s0, x, t, r, q, sigma, v) ==
    lambda(s0, v, delta_call(s0, x, t, r, q, sigma))

lambda_put(s0, x, t, r, q, sigma, v) ==
    lambda(s0, v, delta_put(s0, x, t, r, q, sigma))

rho_call(s0, x, t, r, q, sigma) ==
    FMul(FMul(FMul(FMul(FDiv(One, FromInt(100)), x), t),
              FPowf(E, FMul(FNeg(r), t))),
         cnd(d2(s0, x, t, r, q, sigma)))

rho_put(s0, x, t, r, q, sigma) ==
    FMul(FMul(FMul(FMul(FNeg(FDiv(One, FromInt(100))), x), t),
              FPowf(E, FMul(FNeg(r), t))),
         cnd(FNeg(d2(s0, x, t, r, q, sigma))))

theta_arg_1(s0, t, q, sigma, d_1) ==
    FNeg(FMul(FMul(FDiv(FMul(FMul(s0, sigma), FPowf(E, FMul(FNeg(q), t))),
                        FMul(Two, FSqrt(t))),
                   one_over_sqrt_pi),
              FPowf(E, FDiv(FNeg(FPowf(d_1, Two)), Two))))

\* theta_arg_2 with the discount of the strike forgotten
theta_arg_2_undiscounted(x, t, r, d_2) == FMul(FMul(r, x), cnd(d_2))

theta_arg_2(x, t, r, d_2) ==
    FMul(FMul(FMul(r, x), FPowf(E, FMul(FNeg(r), t))), cnd(d_2))

theta_arg_3(s0, t, q, d_1) ==
    FMul(FMul(FMul(q, s0), FPowf(E, FMul(FNeg(q), t))), cnd(d_1))

\* the statements of theta_call after d1
theta_call_args(s0, x, t, r, q, sigma, days_per_year, d_1) ==
    FMul(FDiv(One, days_per_year),
         FAdd(FSub(theta_arg_1(s0, t, q, sigma, d_1),
                   theta_arg_2(x, t, r, d2_d1(t, sigma, d_1))),
              theta_arg_3(s0, t, q, d_1)))

\* the statements of theta_put after d1
theta_put_args(s0, x, t, r, q, sigma, days_per_year, d_1) ==
    FMul(FDiv(One, days_per_year),
         FSub(FAdd(theta_arg_1(s0, t, q, sigma, d_1),
                   theta_arg_2(x, t, r, FNeg(d2_d1(t, sigma, d_1)))),
              theta_arg_3(s0, t, q, FNeg(d_1))))

theta_call(s0, x, t, r, q, sigma, days_per_year) ==
    theta_call_args(s0, x, t, r, q, sigma, days_per_year,
                     d1(s0, x, t, r, q, sigma))

\* theta_put with the arguments and the signs of theta_call
theta_put_as_call(s0, x, t, r, q, sigma, days_per_year) ==
    theta_call_args(s0, x, t, r, q, sigma, days_per_year,
                     d1(s0, x, t, r, q, sigma))

theta_put(s0, x, t, r, q, sigma, days_per_year) ==
    theta_put_args(s0, x, t, r, q, sigma, days_per_year,
                    d1(s0, x, t, r, q, sigma))

vega_d1(s0, t, q, d_1) ==
    LET mult1 == FMul(FMul(FMul(FDiv(One, FromInt(100)), s0),
                           FPowf(E, FNeg(FMul(q, t)))), FSqrt(t))
        mult2 == one_over_sqrt_pi
        mult3 == FPowf(E, FDiv(FNeg(FPowf(d_1, Two)), Two))
    IN FMul(FMul(mult1, mult2), mult3)

vega(s0, x, t, r, q, sigma) ==
    vega_d1(s0, t, q, d1(s0, x, t, r, q, sigma))

(***************************************************************************)
(* src/greeks/second.rs                                                    *)
(***************************************************************************)
gamma_d1(s0, t, q, sigma, d_1) ==
    LET arg1 == FDiv(FPowf(E, FNeg(FMul(q, t))),
                     FMul(FMul(s0, sigma), FSqrt(t)))
        arg2 == one_over_sqrt_pi
        arg3 == FDiv(FPowf(E, FPowf(FNeg(d_1), Two)), Two)
    IN FMul(FMul(arg1, arg2), arg3)

\* gamma handing d2 to gamma_d1
gamma_of_d2(s0, x, t, r, q, sigma) ==
    gamma_d1(s0, t, q, sigma, d2(s0, x, t, r, q, sigma))

gamma(s0, x, t, r, q, sigma) ==
    gamma_d1(s0, t, q, sigma, d1(s0, x, t, r, q, sigma))

(***************************************************************************)
(* src/value.rs                                                            *)
(***************************************************************************)
\* call_at_expiry without the floor at 0
call_at_expiry_unfloored(s_t, x) == FSub(s_t, x)

call_at_expiry(s_t, x) ==
    LET r == FSub(s_t, x)
    IN IF FGt(r, Zero) THEN r ELSE Zero

\* put_at_expiry as the distance of the price from the strike
put_at_expiry_abs(s_t, x) == FAbs(FSub(x, s_t))

put_at_expiry(s_t, x) ==
    LET r == FSub(x, s_t)
    IN IF FGt(r, Zero) THEN r ELSE Zero

(***************************************************************************)
(* src/greeks/concentrated_liquidity.rs: f32 arithmetic                    *)
(***************************************************************************)
\* f32: the largest finite value is about 3.4 * 10^38
MaxExp10F32 == 38

\* a value as an f32: seven digits
R32(a) ==
    IF ~IsFin(a) \/ a.m = 0 THEN a
    ELSE IF a.e + 8 > MaxExp10F32 THEN Inf(Sgn(a.m))
    ELSE IF a.e + 8 < -MaxExp10F32 THEN Zero
    ELSE Norm(Sgn(a.m), ShiftRight(Abs(a.m), 2), a.e + 2)

Add32(a, b) == R32(FAdd(a, b))

Sub32(a, b) == R32(FSub(a, b))

Mul32(a, b) == R32(FMul(a, b))

Div32(a, b) == R32(FDiv(a, b))

Sqrt32(a) == R32(FSqrt(a))

Powf32(b, y) == R32(FPowf(b, y))

\* the terms of the quadratic a L^2 + b L + c = 0
quadratic_a(p_a, p_b) == Sub32(Div32(Sqrt32(p_a), Sqrt32(p_b)), One)

\* b with the two reserves exchanged
quadratic_b_exchanged(p_a, p_b, r_a, r_b) ==
    Add32(Div32(r_a, Sqrt32(p_b)), Mul32(r_b, Sqrt32(p_a)))

quadratic_b(p_a, p_b, r_a, r_b) ==
    Add32(Div32(r_b, Sqrt32(p_b)), Mul32(r_a, Sqrt32(p_a)))

quadratic_c(r_a, r_b) == Mul32(r_a, r_b)

\* the root selection with its branches exchanged
root_selection_exchanged(solution1, solution2) ==
    IF FGt(solution1, Zero) THEN solution2 ELSE solution1

root_selection(solution1, solution2) ==
    IF FGt(solution1, Zero) THEN solution1 ELSE solution2

\* the discriminant d
quadratic_d(a, b, c) == Sub32(Powf32(b, Two), Mul32(Mul32(FromInt(4), a), c))

\* solution1 with the sign of the square root exchanged
quadratic_solution1_plus(a, b, d) ==
    Div32(Add32(FNeg(b), Sqrt32(d)), Mul32(Two, a))

quadratic_solution1(a, b, d) == Div32(Sub32(FNeg(b), Sqrt32(d)), Mul32(Two, a))

\* solution2 from the magnitude of the discriminant
quadratic_solution2_abs(a, b, d) ==
    Div32(Add32(FNeg(b), Sqrt32(FAbs(d))), Mul32(Two, a))

quadratic_solution2(a, b, d) == Div32(Add32(FNeg(b), Sqrt32(d)), Mul32(Two, a))

\* r_v from the terms and the discriminant
quadratic_root(a, b, d) ==
    root_selection(quadratic_solution1(a, b, d), quadratic_solution2(a, b, d))

\* r_v from the terms of the quadratic
quadratic_solve(a, b, c) == quadratic_root(a, b, quadratic_d(a, b, c))

virtual_liquidity(p_a, p_b, r_a, r_b) ==
    quadratic_solve(quadratic_a(p_a, p_b), quadratic_b(p_a, p_b, r_a, r_b),
                    quadratic_c(r_a, r_b))

concentrated_delta(l, p, p_b) ==
    Mul32(l, Sub32(Div32(One, Sqrt32(p)), Div32(One, Sqrt32(p_b))))

concentrated_gamma(l, p) ==
    Mul32(Mul32(Half, l), Powf32(p, Dec(-15, -1)))

(***************************************************************************)
(* src/greeks/squeeks.rs                                                   *)
(***************************************************************************)
funding_period == FDiv(Dec(175, -1), FromInt(365))

scaling_factor == FromInt(10000)

eulers_number == Dec(271828183, -8)

sqth_to_usd(eth_price, normalization_factor, iv) ==
    FDiv(FMul(FMul(normalization_factor, FPowf(eth_price, Two)),
              FPowf(eulers_number, FMul(FPowf(iv, Two), funding_period))),
         scaling_factor)

\* sqth_delta without the factor 2 of the derivative of eth_price^2
sqth_delta_halved(eth_price, normalization_factor, iv) ==
    FDiv(FMul(FMul(normalization_factor, eth_price),
              FPowf(eulers_number, FMul(FPowf(iv, Two), funding_period))),
         scaling_factor)

sqth_delta(eth_price, normalization_factor, iv) ==
    FDiv(FMul(FMul(FMul(Two, normalization_factor), eth_price),
              FPowf(eulers_number, FMul(FPowf(iv, Two), funding_period))),
         scaling_factor)

sqth_gamma(normalization_factor, iv) ==
    FDiv(FMul(FMul(Two, normalization_factor),
              FPowf(eulers_number, FMul(FPowf(iv, Two), funding_period))),
         scaling_factor)

sqth_theta(eth_price, normalization_factor, iv) ==
    FMul(FPowf(iv, Two), sqth_to_usd(eth_price, normalization_factor, iv))

sqth_vega(eth_price, normalization_factor, iv) ==
    FMul(FMul(FMul(Two, iv), funding_period),
         sqth_to_usd(eth_price, normalization_factor, iv))

(***************************************************************************)
(* A caller of the library: it holds one bundle of parameters, args, and   *)
(* calls functions on it; res maps the name of each function it has called *)
(* to the value that call returned.                                        *)
(***************************************************************************)
Called(f) == f \in DOMAIN res

\* a call of f returns v to the caller, which keeps it; the functions being
\* pure, a caller calls each once (the guard ~Called of the actions below)
Return(f, v) ==
    /\ res' = (f :> v) @@ res
    /\ UNCHANGED <<args, thr, mem>>

InitCaller(S) ==
    /\ args \in S
    /\ res = <<>>
    /\ thr = <<>>
    /\ mem = <<>>

\* the constants of the tests of src/common.rs, src/price.rs, src/greeks
UNDERLYING == Dec(6468, -2)

STRIKE == FromInt(65)

VOL == Dec(5051, -4)

INTEREST_RATE == Dec(15, -3)

DIV_YIELD == Dec(21, -3)

DAYS_PER_YEAR == FromInt(365)

TIME_TO_EXPIRY == FDiv(FromInt(23), DAYS_PER_YEAR)

TestScenario ==
    [s0 |-> UNDERLYING, x |-> STRIKE, t |-> TIME_TO_EXPIRY,
     r |-> INTEREST_RATE, q |-> DIV_YIELD, sigma |-> VOL,
     days_per_year |-> DAYS_PER_YEAR]

\* the number of further option contracts a caller may hold
MaxScenario == 30

BSScenario(i) ==
    IF i = 0 THEN TestScenario
    ELSE [s0    |-> FromInt(50 + 3 * (i % 11)),
          x     |-> FromInt(60 + 5 * (i % 3)),
          t     |-> FDiv(FromInt(1 + (i % 4)), FromInt(4)),
          r     |-> Dec(i % 5, -2),
          q     |-> Dec((i \div 2) % 4, -2),
          sigma |-> Dec(2 + ((i \div 3) % 3), -1),
          days_per_year |-> FromInt(365 - 5 * (i % 2))]

\* expired and zero-volatility contracts
DegenerateScenarios ==
    {[TestScenario EXCEPT !.t = Zero], [TestScenario EXCEPT !.sigma = Zero]}

BSArgs == {BSScenario(i) : i \in 0..MaxScenario} \cup DegenerateScenarios

ValidBS(a) ==
    /\ FGt(a.s0, Zero) /\ FGt(a.x, Zero) /\ FGt(a.t, Zero) /\ FGt(a.sigma, Zero)
    /\ IsFin(a.s0) /\ IsFin(a.x) /\ IsFin(a.t) /\ IsFin(a.sigma)
    /\ IsFin(a.r) /\ IsFin(a.q)

Call_d1 ==
    /\ ~Called("d1")
    /\ Return("d1", d1(args.s0, args.x, args.t, args.r, args.q, args.sigma))

Call_d2 ==
    /\ ~Called("d2")
    /\ Return("d2", d2(args.s0, args.x, args.t, args.r, args.q, args.sigma))

\* the caller passes the d1 it holds
Call_d2_d1 ==
    /\ ~Called("d2_d1")
    /\ Called("d1")
    /\ Return("d2_d1", d2_d1(args.t, args.sigma, res["d1"]))

Call_euro_call ==
    /\ ~Called("euro_call")
    /\ Return("euro_call",
              euro_call(args.s0, args.x, args.t, args.r, args.q, args.sigma))

Call_euro_put ==
    /\ ~Called("euro_put")
    /\ Return("euro_put",
              euro_put(args.s0, args.x, args.t, args.r, args.q, args.sigma))

Call_delta_call ==
    /\ ~Called("delta_call")
    /\ Return("delta_call",
              delta_call(args.s0, args.x, args.t, args.r, args.q, args.sigma))

Call_delta_put ==
    /\ ~Called("delta_put")
    /\ Return("delta_put",
              delta_put(args.s0, args.x, args.t, args.r, args.q, args.sigma))

Call_vega ==
    /\ ~Called("vega")
    /\ Return("vega", vega(args.s0, args.x, args.t, args.r, args.q, args.sigma))

Call_vega_d1 ==
    /\ ~Called("vega_d1")
    /\ Called("d1")
    /\ Return("vega_d1", vega_d1(args.s0, args.t, args.q, res["d1"]))

Call_gamma ==
    /\ ~Called("gamma")
    /\ Return("gamma",
              gamma(args.s0, args.x, args.t, args.r, args.q, args.sigma))

Call_gamma_d1 ==
    /\ ~Called("gamma_d1")
    /\ Called("d1")
    /\ Return("gamma_d1",
              gamma_d1(args.s0, args.t, args.q, args.sigma, res["d1"]))

\* callers of src/price.rs
NextPrice == Call_euro_call \/ Call_euro_put

SpecPrice == InitCaller(BSArgs) /\ [][NextPrice]_vars

\* callers of the deltas of src/greeks/first.rs
NextDelta == Call_delta_call \/ Call_delta_put

SpecDelta == InitCaller(BSArgs) /\ [][NextDelta]_vars

\* callers of src/common.rs
NextCommon == Call_d1 \/ Call_d2 \/ Call_d2_d1

SpecCommon == InitCaller(BSArgs) /\ [][NextCommon]_vars

\* callers of gamma and vega, directly and with a d1 they hold
NextGamma == Call_d1 \/ Call_gamma \/ Call_gamma_d1 \/ Call_vega \/ Call_vega_d1

SpecGamma == InitCaller(BSArgs) /\ [][NextGamma]_vars

Call_theta_call ==
    /\ ~Called("theta_call")
    /\ Return("theta_call",
              theta_call(args.s0, args.x, args.t, args.r, args.q, args.sigma,
                         args.days_per_year))

Call_theta_put ==
    /\ ~Called("theta_put")
    /\ Return("theta_put",
              theta_put(args.s0, args.x, args.t, args.r, args.q, args.sigma,
                        args.days_per_year))

\* callers of theta_call and theta_put
NextTheta == Call_theta_call \/ Call_theta_put

SpecTheta == InitCaller(BSArgs) /\ [][NextTheta]_vars

\* contracts at expiry (t = 0) and without volatility (sigma = 0), with the
\* underlying below, above and at the point where the numerator of d1 is 0
BoundaryScenarios ==
    {[TestScenario EXCEPT !.t = Zero],
     [TestScenario EXCEPT !.t = Zero, !.s0 = FromInt(70)],
     [TestScenario EXCEPT !.t = Zero, !.s0 = STRIKE],
     [TestScenario EXCEPT !.sigma = Zero],
     [TestScenario EXCEPT !.sigma = Zero, !.s0 = FromInt(70)],
     [TestScenario EXCEPT !.sigma = Zero, !.s0 = STRIKE, !.q = INTEREST_RATE],
     [TestScenario EXCEPT !.sigma = Zero, !.t = Zero]}

\* a contract together with the option price v that lambda divides by
Priced(a, v) ==
    [s0 |-> a.s0, x |-> a.x, t |-> a.t, r |-> a.r, q |-> a.q,
     sigma |-> a.sigma, days_per_year |-> a.days_per_year, v |-> v]

BoundaryArgs ==
    {Priced(a, v) : a \in BoundaryScenarios \cup {TestScenario},
                    v \in {Zero, FromInt(3)}}

\* a caller that makes one call and holds what it returns
ReturnOnce(f, v) ==
    /\ res' = (f :> v)
    /\ UNCHANGED <<args, thr, mem>>

Once_d1 ==
    /\ res = <<>>
    /\ ReturnOnce("d1",
                  d1(args.s0, args.x, args.t, args.r, args.q, args.sigma))

Once_d2 ==
    /\ res = <<>>
    /\ ReturnOnce("d2",
                  d2(args.s0, args.x, args.t, args.r, args.q, args.sigma))

Once_euro_call ==
    /\ res = <<>>
    /\ ReturnOnce("euro_call",
                  euro_call(args.s0, args.x, args.t, args.r, args.q,
                            args.sigma))

Once_euro_put ==
    /\ res = <<>>
    /\ ReturnOnce("euro_put",
                  euro_put(args.s0, args.x, args.t, args.r, args.q, args.sigma))

Once_delta_call ==
    /\ res = <<>>
    /\ ReturnOnce("delta_call",
                  delta_call(args.s0, args.x, args.t, args.r, args.q,
                             args.sigma))

Once_delta_put ==
    /\ res = <<>>
    /\ ReturnOnce("delta_put",
                  delta_put(args.s0, args.x, args.t, args.r, args.q,
                            args.sigma))

Once_rho_call ==
    /\ res = <<>>
    /\ ReturnOnce("rho_call",
                  rho_call(args.s0, args.x, args.t, args.r, args.q, args.sigma))

Once_rho_put ==
    /\ res = <<>>
    /\ ReturnOnce("rho_put",
                  rho_put(args.s0, args.x, args.t, args.r, args.q, args.sigma))

Once_vega ==
    /\ res = <<>>
    /\ ReturnOnce("vega",
                  vega(args.s0, args.x, args.t, args.r, args.q, args.sigma))

Once_gamma ==
    /\ res = <<>>
    /\ ReturnOnce("gamma",
                  gamma(args.s0, args.x, args.t, args.r, args.q, args.sigma))

Once_theta_call ==
    /\ res = <<>>
    /\ ReturnOnce("theta_call",
                  theta_call(args.s0, args.x, args.t, args.r, args.q,
                             args.sigma, args.days_per_year))

Once_theta_put ==
    /\ res = <<>>
    /\ ReturnOnce("theta_put",
                  theta_put(args.s0, args.x, args.t, args.r, args.q, args.sigma,
                            args.days_per_year))

Once_lambda_call ==
    /\ res = <<>>
    /\ ReturnOnce("lambda_call",
                  lambda_call(args.s0, args.x, args.t, args.r, args.q,
                              args.sigma, args.v))

Once_lambda_put ==
    /\ res = <<>>
    /\ ReturnOnce("lambda_put",
                  lambda_put(args.s0, args.x, args.t, args.r, args.q,
                             args.sigma, args.v))

\* single calls of the Black-Scholes functions on boundary inputs
NextBoundary ==
    \/ Once_d1 \/ Once_d2 \/ Once_euro_call
    \/ Once_euro_put \/ Once_delta_call \/ Once_delta_put
    \/ Once_rho_call \/ Once_rho_put \/ Once_vega
    \/ Once_gamma \/ Once_theta_call \/ Once_theta_put
    \/ Once_lambda_call \/ Once_lambda_put

SpecBoundary == InitCaller(BoundaryArgs) /\ [][NextBoundary]_vars

\* squeeth positions: the ones of the documentation's size, zero and negative
\* parameters, a price whose square overflows, an infinite price and a NaN
SqthArgs ==
    {[eth_price |-> FromInt(3500), normalization_factor |-> Dec(8, -1),
      iv |-> Dec(9, -1)],
     [eth_price |-> FromInt(1200), normalization_factor |-> One,
      iv |-> Dec(6, -1)],
     [eth_price |-> Dec(21375, -1), normalization_factor |-> Dec(37, -2),
      iv |-> Dec(125, -2)],
     [eth_price |-> Zero, normalization_factor |-> One, iv |-> Dec(9, -1)],
     [eth_price |-> FromInt(3500), normalization_factor |-> One, iv |-> Zero],
     [eth_price |-> FromInt(-3500), normalization_factor |-> Dec(8, -1),
      iv |-> Dec(-9, -1)],
     [eth_price |-> Dec(1, 200), normalization_factor |-> Dec(1, -300),
      iv |-> One],
     [eth_price |-> PInf, normalization_factor |-> One, iv |-> One],
     [eth_price |-> FromInt(3500), normalization_factor |-> One, iv |-> NaN]}

Call_sqth_to_usd ==
    /\ ~Called("sqth_to_usd")
    /\ Return("sqth_to_usd",
              sqth_to_usd(args.eth_price, args.normalization_factor, args.iv))

Call_sqth_delta ==
    /\ ~Called("sqth_delta")
    /\ Return("sqth_delta",
              sqth_delta(args.eth_price, args.normalization_factor, args.iv))

Call_sqth_gamma ==
    /\ ~Called("sqth_gamma")
    /\ Return("sqth_gamma", sqth_gamma(args.normalization_factor, args.iv))

Call_sqth_theta ==
    /\ ~Called("sqth_theta")
    /\ Return("sqth_theta",
              sqth_theta(args.eth_price, args.normalization_factor, args.iv))

Call_sqth_vega ==
    /\ ~Called("sqth_vega")
    /\ Return("sqth_vega",
              sqth_vega(args.eth_price, args.normalization_factor, args.iv))

\* callers of src/greeks/squeeks.rs
NextSqth ==
    \/ Call_sqth_to_usd \/ Call_sqth_delta \/ Call_sqth_gamma
    \/ Call_sqth_theta \/ Call_sqth_vega

SpecSqth == InitCaller(SqthArgs) /\ [][NextSqth]_vars

\* the constants of the tests of src/greeks/concentrated_liquidity.rs
R_A == R32(FromInt(6779))

R_B == R32(Dec(1448, -3))

P_A == R32(FromInt(3747))

P_B == R32(FromInt(5024))

P == R32(Dec(436061, -2))

E_RV == R32(Dec(140240464, -5))

\* the position as test_virtual_liquidity passes it: (P_A, P_B, R_B, R_A)
TestPosition == [p_a |-> P_A, p_b |-> P_B, r_a |-> R_B, r_b |-> R_A, p |-> P]

\* the position with each constant bound to the parameter of its name
NamedPosition == [p_a |-> P_A, p_b |-> P_B, r_a |-> R_A, r_b |-> R_B, p |-> P]

\* the numbers of further range bounds and reserves of a position
MaxLower == 1

MaxWidth == 1

MaxReserve == 2

GridPosition(i, j, k, l) ==
    [p_a |-> R32(FromInt(1000 + 900 * i)),
     p_b |-> R32(FromInt(1000 + 900 * i + 400 * (j + 1))),
     r_a |-> R32(Dec(1448 * k * k, -3)),
     r_b |-> R32(Dec(67790 * l * (1 + l), -1)),
     p   |-> R32(FromInt(1000 + 900 * i + 200 * (j + 1)))]

\* positions outside the documented domain, which the f32 parameters admit:
\* exchanged bounds, a negative reserve, a negative bound, an empty range
UncheckedPositions ==
    {[p_a |-> FromInt(1400), p_b |-> FromInt(1000), r_a |-> Two,
      r_b |-> FromInt(3000), p |-> FromInt(1200)],
     [p_a |-> FromInt(1000), p_b |-> FromInt(1400), r_a |-> FromInt(-1),
      r_b |-> FromInt(1183), p |-> FromInt(1200)],
     [p_a |-> FromInt(-1000), p_b |-> FromInt(1400), r_a |-> One,
      r_b |-> FromInt(1183), p |-> FromInt(1200)],
     [p_a |-> FromInt(1000), p_b |-> FromInt(1000), r_a |-> One,
      r_b |-> FromInt(1183), p |-> FromInt(1000)]}

CLArgs ==
    {TestPosition, NamedPosition} \cup UncheckedPositions \cup
    {GridPosition(i, j, k, l) :
        i \in 0..MaxLower, j \in 0..MaxWidth,
        k \in 0..MaxReserve, l \in 0..MaxReserve}

Call_virtual_liquidity ==
    /\ ~Called("virtual_liquidity")
    /\ Return("virtual_liquidity",
              virtual_liquidity(args.p_a, args.p_b, args.r_a, args.r_b))

Call_concentrated_delta ==
    /\ ~Called("concentrated_delta")
    /\ Called("virtual_liquidity")
    /\ Return("concentrated_delta",
              concentrated_delta(res["virtual_liquidity"], args.p, args.p_b))

Call_concentrated_gamma ==
    /\ ~Called("concentrated_gamma")
    /\ Called("virtual_liquidity")
    /\ Return("concentrated_gamma",
              concentrated_gamma(res["virtual_liquidity"], args.p))

\* callers of src/greeks/concentrated_liquidity.rs
NextCL ==
    Call_virtual_liquidity \/ Call_concentrated_delta \/ Call_concentrated_gamma

SpecCL == InitCaller(CLArgs) /\ [][NextCL]_vars

\* the numbers of further prices at expiry and strikes
MaxExpiryPrice == 5

MaxStrike == 4

SpecialValues == {NaN, PInf, NInf}

ValueArgs ==
    [s_t : {FromInt(25 * i - 50) : i \in 0..MaxExpiryPrice} \cup SpecialValues,
     x   : {Dec(125 * j, -1) : j \in 0..MaxStrike} \cup SpecialValues]

Call_call_at_expiry ==
    /\ ~Called("call_at_expiry")
    /\ Return("call_at_expiry", call_at_expiry(args.s_t, args.x))

Call_put_at_expiry ==
    /\ ~Called("put_at_expiry")
    /\ Return("put_at_expiry", put_at_expiry(args.s_t, args.x))

\* callers of src/value.rs
NextValue == Call_call_at_expiry \/ Call_put_at_expiry

SpecValue == InitCaller(ValueArgs) /\ [][NextValue]_vars

\* the number of further magnitudes of cnd's argument
MaxCndArg == 13

CndArgs ==
    [x : {Dec(125 * i * i, -3) : i \in 0..MaxCndArg}
         \cup {Dec(-125 * i * i, -3) : i \in 0..MaxCndArg}]

Call_cnd ==
    /\ ~Called("cnd(x)")
    /\ Return("cnd(x)", cnd(args.x))

Call_cnd_negated ==
    /\ ~Called("cnd(-x)")
    /\ Return("cnd(-x)", cnd(FNeg(args.x)))

\* callers of src/stats.rs
NextCnd == Call_cnd \/ Call_cnd_negated

SpecCnd == InitCaller(CndArgs) /\ [][NextCnd]_vars

(***************************************************************************)
(* Concurrent callers.  Each caller c calls one function at a time; thr[c] *)
(* is its position in the call, the function and arguments of the call and *)
(* the value returned.  cnd runs statement by statement: its local         *)
(* variable, `let mut cnd`, lives in mem at the slot of the invocation.    *)
(* The other functions are single expressions over their parameters and    *)
(* the constants of their module, and run in one step.                     *)
(***************************************************************************)
NumCallers == 2

Callers == 1..NumCallers

\* where the local of cnd lives for caller c's invocation: in that
\* invocation's own frame
CndSlotStatic(c) == 0

CndSlot(c) == c

ConcCndArgs == {Dec(-15, -1), Dec(75, -2), FromInt(2)}

ConcSqthArgs ==
    {<<FromInt(3500), Dec(8, -1), Dec(9, -1)>>,
     <<FromInt(1200), One, Dec(6, -1)>>}

Idle == [pc |-> "idle", fn |-> "none", arg |-> <<>>, ret |-> Zero]

Init ==
    /\ args = <<>>
    /\ res = <<>>
    /\ thr = [c \in Callers |-> Idle]
    /\ mem = [n \in 0..NumCallers |-> Zero]

\* stats.rs lines 13-15: k and the initial value of the local
Begin_cnd(c, x) ==
    /\ thr[c].pc = "idle"
    /\ thr' = [thr EXCEPT ![c] = [pc |-> "cnd_branch", fn |-> "cnd",
                                  arg |-> <<x>>, ret |-> Zero]]
    /\ mem' = [mem EXCEPT ![CndSlot(c)] = cnd_value(x)]
    /\ UNCHANGED <<args, res>>

\* stats.rs lines 16-18: the branch on the sign of x
Branch_cnd(c) ==
    /\ thr[c].pc = "cnd_branch"
    /\ thr' = [thr EXCEPT ![c].pc = "cnd_return"]
    /\ mem' = [mem EXCEPT ![CndSlot(c)] = cnd_branch(thr[c].arg[1], @)]
    /\ UNCHANGED <<args, res>>

\* stats.rs line 19: the local is returned and its frame is gone
Return_cnd(c) ==
    /\ thr[c].pc = "cnd_return"
    /\ thr' = [thr EXCEPT ![c].pc = "done", ![c].ret = mem[CndSlot(c)]]
    /\ mem' = [mem EXCEPT ![CndSlot(c)] = Zero]
    /\ UNCHANGED <<args, res>>

Run_sqth_to_usd(c, a) ==
    /\ thr[c].pc = "idle"
    /\ thr' = [thr EXCEPT ![c] = [pc |-> "done", fn |-> "sqth_to_usd",
                                  arg |-> a,
                                  ret |-> sqth_to_usd(a[1], a[2], a[3])]]
    /\ UNCHANGED <<args, res, mem>>

\* the caller has used the value and is free to call again
Continue(c) ==
    /\ thr[c].pc = "done"
    /\ thr' = [thr EXCEPT ![c] = Idle]
    /\ UNCHANGED <<args, res, mem>>

Next ==
    \E c \in Callers :
        \/ \E x \in ConcCndArgs : Begin_cnd(c, x)
        \/ Branch_cnd(c)
        \/ Return_cnd(c)
        \/ \E a \in ConcSqthArgs : Run_sqth_to_usd(c, a)
        \/ Continue(c)

Spec == Init /\ [][Next]_vars

(***************************************************************************)
(* Properties                                                              *)
(***************************************************************************)
\* a < b; false when either is NaN
FLt(a, b) == FGt(b, a)

\* a == b as the code's == decides it: NaN equals nothing
FEq(a, b) == ~IsNaN(a) /\ ~IsNaN(b) /\ a = b

Tol6 == Dec(1, -6)

\* |a - b| < tol; false when a or b is NaN
Within(a, b, tol) == FGt(tol, FAbs(FSub(a, b)))

Discount(rate, t) == FExp(FNeg(FMul(rate, t)))

\* C1: put-call parity.  For valid inputs, euro_call - euro_put is within
\* 1e-6 of s0 * e^(-q t) - x * e^(-r t).
C1_PutCallParity ==
    (ValidBS(args) /\ Called("euro_call") /\ Called("euro_put")) =>
        Within(FSub(res["euro_call"], res["euro_put"]),
               FSub(FMul(args.s0, Discount(args.q, args.t)),
                    FMul(args.x, Discount(args.r, args.t))),
               Tol6)

\* the Gaussian kernel 1/sqrt(2 pi) * e^(-d^2 / 2)
GaussianKernel(d) == FMul(one_over_sqrt_pi, FExp(FNeg(FDiv(FMul(d, d), Two))))

\* e^(-q t) / (s0 sigma sqrt(t)) * 1/sqrt(2 pi) * e^(-d1^2 / 2)
GammaFormula(a, d) ==
    FMul(FDiv(Discount(a.q, a.t), FMul(FMul(a.s0, a.sigma), FSqrt(a.t))),
         GaussianKernel(d))

\* C2: for valid inputs gamma, and gamma_d1 given d1, is
\* e^(-q t) / (s0 sigma sqrt(t)) * 1/sqrt(2 pi) * e^(-d1^2 / 2).
C2_GammaIsGaussianKernel ==
    /\ (ValidBS(args) /\ Called("gamma")) =>
          Within(res["gamma"],
                 GammaFormula(args, d1(args.s0, args.x, args.t, args.r, args.q,
                                       args.sigma)),
                 Tol6)
    /\ (ValidBS(args) /\ Called("gamma_d1")) =>
          Within(res["gamma_d1"], GammaFormula(args, res["d1"]), Tol6)

\* C5: for valid inputs, delta_call - delta_put is within 1e-6 of e^(-q t).
C5_DeltaParity ==
    (ValidBS(args) /\ Called("delta_call") /\ Called("delta_put")) =>
        Within(FSub(res["delta_call"], res["delta_put"]),
               Discount(args.q, args.t), Tol6)

\* C5: both deltas of a dividend-paying contract have been computed
C5_Witness ==
    /\ ValidBS(args) /\ Called("delta_call") /\ Called("delta_put")
    /\ FGt(args.q, Zero)

\* C6: for all inputs d2 is d1 - sigma * sqrt(t), and d2_d1 given the d1
\* the caller holds returns the value d2 returns.
C6_D2FromD1 ==
    /\ (Called("d1") /\ Called("d2")) =>
          res["d2"] = FSub(res["d1"], FMul(args.sigma, FSqrt(args.t)))
    /\ (Called("d2") /\ Called("d2_d1")) => res["d2_d1"] = res["d2"]

\* C6: a caller has d1, d2 and d2_d1 of a valid contract, d2 other than d1
C6_Witness ==
    /\ ValidBS(args) /\ Called("d1") /\ Called("d2") /\ Called("d2_d1")
    /\ IsFin(res["d2"]) /\ res["d2"] # res["d1"]

\* C7: gamma returns the value gamma_d1 returns given d1, and vega the
\* value vega_d1 returns given d1.
C7_SameWithPrecomputedD1 ==
    /\ (Called("gamma") /\ Called("gamma_d1")) => res["gamma"] = res["gamma_d1"]
    /\ (Called("vega") /\ Called("vega_d1")) => res["vega"] = res["vega_d1"]

\* C7: a caller has all four values of a valid contract
C7_Witness ==
    /\ ValidBS(args)
    /\ Called("gamma") /\ Called("gamma_d1")
    /\ Called("vega") /\ Called("vega_d1")
    /\ IsFin(res["gamma"]) /\ IsFin(res["vega"]) /\ res["d1"].m # 0

\* C3 as stated: with p_a = 3747, p_b = 5024, r_a = 6779, r_b = 1.448, each
\* bound to the parameter of its name, virtual_liquidity is within 0.1 of
\* 1402.40.
C3_ReferenceByName ==
    (args = NamedPosition /\ Called("virtual_liquidity")) =>
        Within(res["virtual_liquidity"], E_RV, Dec(1, -1))

\* C3 amended: with the reserves as the test passes them, r_a = 1.448 and
\* r_b = 6779, virtual_liquidity is within 0.1 of 1402.40.
C3_ReferenceAsTested ==
    (args = TestPosition /\ Called("virtual_liquidity")) =>
        Within(res["virtual_liquidity"], E_RV, Dec(1, -1))

\* C3: the test's call has returned
C3_Witness ==
    /\ args = TestPosition /\ Called("virtual_liquidity")
    /\ IsFin(res["virtual_liquidity"])

ValidPosition(a) ==
    /\ FGt(a.p_a, Zero) /\ FGt(a.p_b, a.p_a) /\ IsFin(a.p_b)
    /\ ~FLt(a.r_a, Zero) /\ ~FLt(a.r_b, Zero) /\ IsFin(a.r_a) /\ IsFin(a.r_b)

\* L solves a L^2 + b L + c = 0 to within rounding: the residual is at most
\* 1e-4 of the magnitude of its terms
IsRoot(a, L) ==
    LET qa == quadratic_a(a.p_a, a.p_b)
        qb == quadratic_b(a.p_a, a.p_b, a.r_a, a.r_b)
        qc == quadratic_c(a.r_a, a.r_b)
        t2 == FMul(qa, FMul(L, L))
        t1 == FMul(qb, L)
    IN /\ IsFin(L)
       /\ ~FGt(FAbs(FAdd(FAdd(t2, t1), qc)),
               FMul(Dec(1, -4), FAdd(FAdd(FAbs(t2), FAbs(t1)), FAbs(qc))))

\* C4 as stated: for every valid position (0 < p_a < p_b, r_a >= 0, r_b >= 0)
\* virtual_liquidity is a strictly positive root of the quadratic.
C4_PositiveRoot ==
    (ValidPosition(args) /\ Called("virtual_liquidity")) =>
        /\ FGt(res["virtual_liquidity"], Zero)
        /\ IsRoot(args, res["virtual_liquidity"])

\* C4 amended: for every valid position with a positive reserve,
\* virtual_liquidity is a strictly positive root of the quadratic; with both
\* reserves zero it is the root zero.
C4_PositiveRootOfFundedPosition ==
    (ValidPosition(args) /\ Called("virtual_liquidity")) =>
        /\ IsRoot(args, res["virtual_liquidity"])
        /\ IF FGt(args.r_a, Zero) \/ FGt(args.r_b, Zero)
           THEN FGt(res["virtual_liquidity"], Zero)
           ELSE res["virtual_liquidity"] = Zero

\* C4: virtual_liquidity has returned for a position with one reserve zero
\* and the other positive
C4_Witness ==
    /\ ValidPosition(args) /\ Called("virtual_liquidity")
    /\ args.r_a = Zero /\ FGt(args.r_b, Zero)

\* C8 as stated: for all s_t and x, call_at_expiry - put_at_expiry is
\* s_t - x exactly.
C8_ParityAtExpiry ==
    (Called("call_at_expiry") /\ Called("put_at_expiry")) =>
        FSub(res["call_at_expiry"], res["put_at_expiry"])
            = FSub(args.s_t, args.x)

\* C8 amended: for all s_t and x whose difference s_t - x is a number (neither
\* is NaN, and they are not infinities of the same sign),
\* call_at_expiry - put_at_expiry is s_t - x exactly.
C8_ParityAtExpiryOfNumbers ==
    (Called("call_at_expiry") /\ Called("put_at_expiry")
        /\ ~IsNaN(FSub(args.s_t, args.x))) =>
        FEq(FSub(res["call_at_expiry"], res["put_at_expiry"]),
            FSub(args.s_t, args.x))

\* C8: both values at expiry of a put in the money
C8_Witness ==
    /\ Called("call_at_expiry") /\ Called("put_at_expiry")
    /\ IsFin(args.s_t) /\ IsFin(args.x) /\ FLt(args.s_t, args.x)
    /\ FGt(res["put_at_expiry"], Zero)

\* C9: cnd is 1 - value when x > 0 and value otherwise, value being computed
\* from |x|; cnd(x) + cnd(-x) is within 1e-6 of 1 for every finite x, and
\* cnd(0) is within 1e-6 of 0.5.
C9_CndSymmetry ==
    /\ Called("cnd(x)") =>
          /\ cnd_value(args.x) = cnd_value(FAbs(args.x))
          /\ res["cnd(x)"] = IF FGt(args.x, Zero)
                             THEN FSub(One, cnd_value(args.x))
                             ELSE cnd_value(args.x)
    /\ (Called("cnd(x)") /\ Called("cnd(-x)") /\ IsFin(args.x)) =>
          Within(FAdd(res["cnd(x)"], res["cnd(-x)"]), One, Tol6)
    /\ (Called("cnd(x)") /\ args.x = Zero) => Within(res["cnd(x)"], Half, Tol6)

\* C9: cnd has returned for a negative x and for its negation
C9_Witness ==
    /\ Called("cnd(x)") /\ Called("cnd(-x)") /\ FLt(args.x, Zero)
    /\ FGt(res["cnd(x)"], Zero) /\ FLt(res["cnd(-x)"], One)

\* the value a call returns when it is the only call ever made
Isolated(fn, a) ==
    IF fn = "cnd" THEN cnd(a[1]) ELSE sqth_to_usd(a[1], a[2], a[3])

\* C10: every function is stateless and deterministic.  Whatever the calls
\* of the other callers, a call in flight finds in its local what it wrote
\* there itself, and a finished call has returned the value the same call
\* returns in isolation.
C10_StatelessDeterministic ==
    \A c \in Callers :
        /\ thr[c].pc = "cnd_branch" =>
              mem[CndSlot(c)] = cnd_value(thr[c].arg[1])
        /\ thr[c].pc = "cnd_return" => mem[CndSlot(c)] = cnd(thr[c].arg[1])
        /\ thr[c].pc = "done" => thr[c].ret = Isolated(thr[c].fn, thr[c].arg)

\* C10: a call of cnd has returned while another caller's call of cnd, with
\* another argument, was between its statements
C10_Witness ==
    \E c, d \in Callers :
        /\ c # d
        /\ thr[c].pc = "done" /\ thr[c].fn = "cnd"
        /\ thr[d].pc = "cnd_return" /\ thr[d].arg # thr[c].arg

\* ---- src/greeks/concentrated_liquidity.rs: the root virtual_liquidity returns

\* the discriminant and the two roots as lines 25 to 34 compute them, written
\* out from the f32 operations
Discriminant(a) ==
    Sub32(Powf32(quadratic_b(a.p_a, a.p_b, a.r_a, a.r_b), Two),
          Mul32(Mul32(FromInt(4), quadratic_a(a.p_a, a.p_b)),
                quadratic_c(a.r_a, a.r_b)))

Solution1(a) ==
    Div32(Sub32(FNeg(quadratic_b(a.p_a, a.p_b, a.r_a, a.r_b)),
                Sqrt32(Discriminant(a))),
          Mul32(Two, quadratic_a(a.p_a, a.p_b)))

Solution2(a) ==
    Div32(Add32(FNeg(quadratic_b(a.p_a, a.p_b, a.r_a, a.r_b)),
                Sqrt32(Discriminant(a))),
          Mul32(Two, quadratic_a(a.p_a, a.p_b)))

\* C11: virtual_liquidity returns solution1 = (-b - sqrt(d)) / (2a) exactly when
\* solution1 > 0, and solution2 = (-b + sqrt(d)) / (2a) in every other case
\* (solution1 <= 0 or NaN), also when solution2 is itself non-positive or NaN.
C11_RootSelection ==
    Called("virtual_liquidity") =>
        res["virtual_liquidity"] =
            IF FGt(Solution1(args), Zero) THEN Solution1(args)
            ELSE Solution2(args)

\* a position whose solution1 is negative has had its negative solution2
\* returned
C11_Witness ==
    /\ Called("virtual_liquidity")
    /\ FLt(Solution1(args), Zero)
    /\ FLt(Solution2(args), Zero)
    /\ res["virtual_liquidity"] = Solution2(args)

\* C12: whenever the discriminant d = b^2 - 4ac is negative, virtual_liquidity
\* returns NaN.
C12_NegativeDiscriminantIsNaN ==
    (Called("virtual_liquidity") /\ FLt(Discriminant(args), Zero)) =>
        IsNaN(res["virtual_liquidity"])

\* a position with a negative discriminant has been solved
C12_Witness ==
    /\ Called("virtual_liquidity")
    /\ FLt(Discriminant(args), Zero)
    /\ IsNaN(res["virtual_liquidity"])

\* ---- src/greeks/first.rs: theta

Tol9 == Dec(1, -9)

\* -(s0 sigma e^(-q t)) / (2 sqrt(t)) * 1/sqrt(2 pi) * e^(-d^2 / 2)
ThetaArg1(a, d) ==
    FNeg(FMul(FDiv(FMul(FMul(a.s0, a.sigma), Discount(a.q, a.t)),
                   FMul(Two, FSqrt(a.t))),
              GaussianKernel(d)))

\* r x e^(-r t) cnd(y)
ThetaArg2(a, y) == FMul(FMul(FMul(a.r, a.x), Discount(a.r, a.t)), cnd(y))

\* q s0 e^(-q t) cnd(y)
ThetaArg3(a, y) == FMul(FMul(FMul(a.q, a.s0), Discount(a.q, a.t)), cnd(y))

ThetaCallFormula(a, d_1, d_2) ==
    FDiv(FAdd(FSub(ThetaArg1(a, d_1), ThetaArg2(a, d_2)), ThetaArg3(a, d_1)),
         a.days_per_year)

ThetaPutFormula(a, d_1, d_2) ==
    FDiv(FSub(FAdd(ThetaArg1(a, d_1), ThetaArg2(a, FNeg(d_2))),
              ThetaArg3(a, FNeg(d_1))),
         a.days_per_year)

D1Of(a) == d1(a.s0, a.x, a.t, a.r, a.q, a.sigma)

\* C13: theta_call is (1/days_per_year) (arg1 - arg2(d2) + arg3(d1)) and
\* theta_put is (1/days_per_year) (arg1 + arg2(-d2) - arg3(-d1)), with the
\* same arg1 from the same d1, arg2(y) = r x e^(-r t) cnd(y),
\* arg3(y) = q s0 e^(-q t) cnd(y), and d2 derived from that d1 by d2_d1.
C13_ThetaSigns ==
    /\ (ValidBS(args) /\ Called("theta_call")) =>
           Within(res["theta_call"],
                  ThetaCallFormula(args, D1Of(args),
                                   d2_d1(args.t, args.sigma, D1Of(args))),
                  Tol9)
    /\ (ValidBS(args) /\ Called("theta_put")) =>
           Within(res["theta_put"],
                  ThetaPutFormula(args, D1Of(args),
                                  d2_d1(args.t, args.sigma, D1Of(args))),
                  Tol9)

\* both thetas of a contract with interest and dividends have been computed,
\* and differ
C13_Witness ==
    /\ ValidBS(args) /\ Called("theta_call") /\ Called("theta_put")
    /\ FGt(args.r, Zero) /\ FGt(args.q, Zero)
    /\ res["theta_call"] # res["theta_put"]

\* C16: for valid inputs and days_per_year # 0, theta_call - theta_put is
\* (q s0 e^(-q t) - r x e^(-r t)) / days_per_year, whatever sigma, d1 and d2.
C16_ThetaParity ==
    (ValidBS(args) /\ Called("theta_call") /\ Called("theta_put")) =>
        Within(FSub(res["theta_call"], res["theta_put"]),
               FDiv(FSub(FMul(FMul(args.q, args.s0), Discount(args.q, args.t)),
                         FMul(FMul(args.r, args.x), Discount(args.r, args.t))),
                    args.days_per_year),
               Tol9)

\* both thetas have been computed for a contract whose carry terms do not
\* cancel
C16_Witness ==
    /\ ValidBS(args) /\ Called("theta_call") /\ Called("theta_put")
    /\ FGt(args.r, Zero)
    /\ ~Within(res["theta_call"], res["theta_put"], Tol6)

\* ---- division by zero in d1: t = 0 or sigma = 0

\* t = 0 or sigma = 0 with a positive underlying and strike
Boundary(a) ==
    /\ a.t = Zero \/ a.sigma = Zero
    /\ FGt(a.s0, Zero) /\ FGt(a.x, Zero)

\* the functions built on d1 and d2 that the claim lists
BuiltOnD1 ==
    {"euro_call", "euro_put", "delta_call", "delta_put", "rho_call", "rho_put",
     "theta_call", "theta_put", "vega", "gamma"}

\* those of them that weigh d1 and d2 by cnd only, or by the kernel e^(-d1^2/2)
BoundedInD1 ==
    {"euro_call", "euro_put", "delta_call", "delta_put", "rho_call", "rho_put",
     "vega"}

Thetas == {"theta_call", "theta_put"}

Lambdas == {"lambda_call", "lambda_put"}

\* C14 as stated: when t = 0 or sigma = 0 (s0 > 0, x > 0), d1 and d2 return
\* NaN or +/-inf and every function built on them returns NaN or an infinite
\* value rather than a finite number; lambda_call and lambda_put with v = 0
\* return inf or NaN.
C14_DivisionByZeroPropagates ==
    /\ \A f \in DOMAIN res \cap ({"d1", "d2"} \cup BuiltOnD1) :
           Boundary(args) => ~IsFin(res[f])
    /\ \A f \in DOMAIN res \cap Lambdas :
           args.v = Zero => ~IsFin(res[f])

\* C14 amended: when t = 0 or sigma = 0 (s0 > 0, x > 0), d1, d2 and gamma
\* return NaN or +/-inf.  If d1 is NaN every function built on it returns NaN.
\* If d1 is +/-inf, then euro_call, euro_put, delta_call, delta_put, rho_call,
\* rho_put and vega return finite numbers, and theta_call and theta_put return
\* NaN when t = 0 and a finite number when t > 0.  lambda_call and lambda_put
\* with v = 0 return +/-inf or NaN.
C14_DivisionByZeroReachesGammaAndTheta ==
    /\ \A f \in DOMAIN res \cap {"d1", "d2", "gamma"} :
           Boundary(args) => ~IsFin(res[f])
    /\ \A f \in DOMAIN res \cap BuiltOnD1 :
           (Boundary(args) /\ IsNaN(D1Of(args))) => IsNaN(res[f])
    /\ \A f \in DOMAIN res \cap BoundedInD1 :
           (Boundary(args) /\ IsInf(D1Of(args))) => IsFin(res[f])
    /\ \A f \in DOMAIN res \cap Thetas :
           (Boundary(args) /\ IsInf(D1Of(args))) =>
               IF args.t = Zero THEN IsNaN(res[f]) ELSE IsFin(res[f])
    /\ \A f \in DOMAIN res \cap Lambdas :
           args.v = Zero => ~IsFin(res[f])

\* euro_call has returned the finite value s0 - x = 5 of a contract at expiry,
\* whose d1 is +inf
C14_Witness ==
    /\ Boundary(args) /\ args.t = Zero
    /\ D1Of(args) = PInf
    /\ Called("euro_call")
    /\ res["euro_call"] = FromInt(5)

\* ---- src/greeks/squeeks.rs: price, delta, gamma, theta and vega

\* a == b, or a within a millionth of b
Close(a, b) == FEq(a, b) \/ Within(a, b, FMul(Tol6, FAbs(b)))

SqthCalled ==
    {"sqth_to_usd", "sqth_delta", "sqth_gamma", "sqth_theta", "sqth_vega"}
        \subseteq DOMAIN res

\* the relations of the claim between the five values returned
SqthRelations ==
    /\ Close(FMul(res["sqth_delta"], args.eth_price),
             FMul(Two, res["sqth_to_usd"]))
    /\ Close(FMul(res["sqth_gamma"], args.eth_price), res["sqth_delta"])
    /\ FEq(res["sqth_theta"], FMul(FPowf(args.iv, Two), res["sqth_to_usd"]))
    /\ FEq(res["sqth_vega"],
           FMul(FMul(FMul(Two, args.iv), funding_period), res["sqth_to_usd"]))

\* finite parameters, and values returned that neither overflowed nor
\* underflowed
SqthInRange ==
    /\ IsFin(args.eth_price) /\ IsFin(args.normalization_factor)
    /\ IsFin(args.iv)
    /\ \A f \in {"sqth_to_usd", "sqth_delta", "sqth_gamma"} :
           /\ IsFin(res[f])
           /\ res[f] = Zero =>
                  (args.normalization_factor = Zero
                   \/ (f # "sqth_gamma" /\ args.eth_price = Zero))

\* C15 as stated: for all inputs sqth_delta * e == 2 sqth_to_usd,
\* sqth_gamma * e == sqth_delta, sqth_theta == iv^2 sqth_to_usd and
\* sqth_vega == 2 iv FUNDING_PERIOD sqth_to_usd (the first two up to rounding).
C15_SqueethConsistent == SqthCalled => SqthRelations

\* C15 amended: the relations hold for finite parameters whose price, delta
\* and gamma neither overflow nor underflow.
C15_SqueethConsistentInRange == (SqthCalled /\ SqthInRange) => SqthRelations

\* the five values of a position of ordinary size have been computed
C15_Witness ==
    /\ SqthCalled /\ SqthInRange
    /\ FGt(args.eth_price, Zero) /\ FGt(args.iv, Zero)
    /\ FGt(res["sqth_gamma"], Zero)

\* ---- src/value.rs: the signs of the values at expiry

\* v >= 0.0
NonNegative(v) == v = Zero \/ FGt(v, Zero)

\* C17: for all non-NaN s_t and x, call_at_expiry >= 0 and put_at_expiry >= 0,
\* at most one of the two is non-zero, and both are 0 exactly when s_t == x.
C17_ValuesAtExpiry ==
    (Called("call_at_expiry") /\ Called("put_at_expiry")
        /\ ~IsNaN(args.s_t) /\ ~IsNaN(args.x)) =>
        /\ NonNegative(res["call_at_expiry"])
        /\ NonNegative(res["put_at_expiry"])
        /\ res["call_at_expiry"] = Zero \/ res["put_at_expiry"] = Zero
        /\ (res["call_at_expiry"] = Zero /\ res["put_at_expiry"] = Zero)
               <=> FEq(args.s_t, args.x)

\* both values at expiry of a call in the money
C17_Witness ==
    /\ Called("call_at_expiry") /\ Called("put_at_expiry")
    /\ IsFin(args.s_t) /\ IsFin(args.x) /\ FGt(args.s_t, args.x)
    /\ FGt(res["call_at_expiry"], Zero)
    /\ res["put_at_expiry"] = Zero

====
